---- MODULE Spec2Model ----
(***************************************************************************)
(* Model of populate.Checkout (src/populate/deref.go): the link cleaner,   *)
(* the three tree builders, the two-pass link planner and the diff engine. *)
(*                                                                         *)
(* Paths are sequences of path segments.  A path of the writable directory *)
(* is relative to rw (<<>> is rw itself); a symlink target and a path of   *)
(* the change-list are absolute (<<"mnt", "w1", "a">> is /mnt/w1/a).       *)
(* Every segment of the modelled universe that takes part in a sort is     *)
(* made of bytes above '/', so the byte order of two joined path strings   *)
(* is the segment-wise lexicographic order used by PathLess.               *)
(*                                                                         *)
(* The builder of the writable tree runs as the goroutines of fill: a step *)
(* of a goroutine takes it from one receive on an errs channel to the next *)
(* (or to its end); the file system calls in between are local to it.  The *)
(* goroutines a Checkout leaves behind when it returns early only read rw  *)
(* and write nodes that nothing reads any more; they are dropped when the  *)
(* next Checkout is called.                                                *)
(***************************************************************************)
EXTENDS Integers, Sequences, FiniteSets, TLC

VARIABLES
    mnt,          \* the read-only mount: workspace name -> manifest and tree.json files
    rwfs,         \* the writable directory: path -> [kind, target]
    pc,           \* position of Checkout: idle, clean, spawn, join, plan, diff, done, failed, panic
    ro,           \* the workspace name of Checkout's ro argument (ro = /mnt/<ro>)
    wsName,       \* clearLinks' result
    errs,         \* the errs channel of Checkout (capacity 3): sequence of errors
    task,         \* builder goroutines: name -> "none" | "running" | "done"
    recvd,        \* loop counter i of Checkout's receive loop
    oldInfos,     \* shared variable oldInfos (NilInfos until set)
    rwTree,       \* shared variable rwTree (Nil until set)
    roTree,       \* shared variable roTree (Nil until set)
    newInfos,     \* local variable newInfos of Checkout
    changed,      \* the change-list returned by the last finished Checkout
    calls,        \* number of Checkout calls started so far
    prev,         \* summary of the previous finished Checkout call
    rwBefore,     \* rwfs when the running Checkout was called
    treeLinks,    \* paths at which pass 1 of the running Checkout made a whole-tree link
    repoWrites,   \* paths at which pass 2 of the running Checkout called Symlink or made a directory
    descents,     \* paths rwRoot/nm at which pass 1 of the running Checkout called itself
    rmDirs,       \* the directories the last clearLinks gave to os.Remove, in order
    routines,     \* goroutines of fill: repository root -> [stack, out, state]
    chans,        \* errs channels of the fill calls: directory of the call -> sequence of errors
    nodes         \* the repoTree nodes fill has made: repository root -> [children, entries]

vars == <<mnt, rwfs, pc, ro, wsName, errs, task, recvd, oldInfos, rwTree, roTree,
          newInfos, changed, calls, prev, rwBefore, treeLinks, repoWrites, descents,
          rmDirs, routines, chans, nodes>>

----------------------------------------------------------------------------
(* Bounds of the model *)

\* Checkout calls in one behaviour
MaxCheckouts == 2

\* user-owned items (repositories, files, directories, symlinks) in the initial rw
MaxUserItems == 2

\* paths of the file maps that the diff engine is applied to on its own
MaxDiffPaths == 2

\* the planner's calls of os.Symlink that succeed before one fails for a
\* reason outside rw (an I/O error, a full disk): 0..MaxFaultAt, or no failure
MaxFaultAt == 1

\* projects of a manifest that the builder of the manifest tree is applied to
\* on its own
MaxProjects == 3

----------------------------------------------------------------------------
(* Strings and paths *)

\* All segment names of the universe in byte order (sort.Strings order).
NameOrder == <<".git", "HEAD", "a", "b", "c", "cf", "d", "e", "f1", "f2", "k", "l", "m",
               "mnt", "mnt2", "other", "out", "sub", "t", "u", "w1", "w2", "x", "y">>

Rank(n) == CHOOSE i \in 1..Len(NameOrder) : NameOrder[i] = n

\* strings.HasPrefix on single segments: the only pair of distinct names of the
\* universe where one is a string prefix of the other and that matters for
\* link targets is "mnt" / "mnt2".
SegHasPrefix(s, p) == s = p \/ (p = "mnt" /\ s = "mnt2")

IsPrefix(p, q) == Len(p) <= Len(q) /\ SubSeq(q, 1, Len(p)) = p

IsProperPrefix(p, q) == Len(p) < Len(q) /\ SubSeq(q, 1, Len(p)) = p

\* filepath.Join on clean paths
Join(p, q) == p \o q

\* filepath.Dir
Dir(p) == SubSeq(p, 1, Len(p) - 1)

Tail2(p, n) == SubSeq(p, n + 1, Len(p))

\* byte order of the joined strings p and q
RECURSIVE PathLess(_, _)
PathLess(p, q) ==
    IF p = <<>> THEN q # <<>>
    ELSE IF q = <<>> THEN FALSE
    ELSE IF Head(p) = Head(q) THEN PathLess(Tail(p), Tail(q))
    ELSE Rank(Head(p)) < Rank(Head(q))

\* All the sequences that enumerate the set S once (an order of a Go map range).
RECURSIVE Orders(_)
Orders(S) ==
    IF S = {} THEN {<<>>}
    ELSE UNION {{<<x>> \o o : o \in Orders(S \ {x})} : x \in S}

RECURSIVE Insert(_, _)
Insert(s, p) ==
    IF s = <<>> THEN <<p>>
    ELSE IF PathLess(p, Head(s)) THEN <<p>> \o s
    ELSE <<Head(s)>> \o Insert(Tail(s), p)

\* sort.Strings
RECURSIVE SortStrings(_)
SortStrings(s) ==
    IF s = <<>> THEN <<>> ELSE Insert(SortStrings(Tail(s)), Head(s))

EmptyMap == [x \in {} |-> x]

Put(m, k, v) == [x \in DOMAIN m \cup {k} |-> IF x = k THEN v ELSE m[x]]

Nil == [nil |-> TRUE]

\* the nil map[string]*fileInfo: no file map has the empty path as a key
NilInfos == [p \in {<<>>} |-> Nil]

----------------------------------------------------------------------------
(* fileInfo and repoTree *)

\* git.Oid values are small integers; NoSha1 is the nil *git.Oid.
NoSha1 == 0

\* an id of tree.json that git.NewOid rejects (malformed hex)
BadHex == -1

\* &fileInfo{}
newFileInfo == [sha1 |-> NoSha1, isLink |-> FALSE]

makeRepoTree == [children |-> EmptyMap, entries |-> EmptyMap]

\* (t *repoTree) findParentRepo: the set of results over the orders in which
\* the range over t.children can run.  A result is [at, key]: the child keys
\* that lead from t to the parent node, and the residual path.
RECURSIVE findParentRepo(_, _)
findParentRepo(t, path) ==
    LET hits == {k \in DOMAIN t.children : IsProperPrefix(k, path)}
    IN  IF hits = {} THEN {[at |-> <<>>, key |-> path]}
        ELSE UNION {{[at |-> <<k>> \o r.at, key |-> r.key] :
                        r \in findParentRepo(t.children[k], Tail2(path, Len(k)))} :
                    k \in hits}

\* parent.children[key] = childTree, for the node reached from t along at
RECURSIVE SetChild(_, _, _, _)
SetChild(t, at, key, child) ==
    IF at = <<>> THEN [t EXCEPT !.children = Put(@, key, child)]
    ELSE [t EXCEPT !.children[Head(at)] = SetChild(@, Tail(at), key, child)]

\* the projects in the order of the manifest
byDeclaration(project) == project

\* the order of the two nested loops over byDepth: by segment count, the
\* projects of one depth in manifest order
byDepth(project) ==
    LET RECURSIVE Level(_)
        Level(l) == IF \A i \in 1..Len(project) : Len(project[i]) < l THEN <<>>
                    ELSE SelectSeq(project, LAMBDA p : Len(p) = l) \o Level(l + 1)
    IN  Level(0)

RECURSIVE InsertProjects(_, _)
InsertProjects(projs, root) ==
    IF projs = <<>> THEN {root}
    ELSE UNION {InsertProjects(Tail(projs), SetChild(root, r.at, r.key, makeRepoTree)) :
                    r \in findParentRepo(root, Head(projs))}

\* repoTreeFromManifest of the manifest m = [project, dest]: the trees it can
\* return.  dest holds the Copyfile and Linkfile destinations of all projects.
repoTreeFromManifest(m) ==
    {[t EXCEPT !.entries = [d \in m.dest |-> newFileInfo]] :
        t \in InsertProjects(byDepth(m.project), makeRepoTree)}

\* the loop over tree.Entries of fillFromSlothFS: [err, entries]
RECURSIVE FillEntries(_, _)
FillEntries(json, entries) ==
    IF json = <<>> THEN [err |-> FALSE, entries |-> entries]
    ELSE LET e == Head(json)
         IN  IF e.id = BadHex THEN [err |-> TRUE, entries |-> entries]
             ELSE FillEntries(Tail(json),
                     Put(entries, e.name, [sha1 |-> e.id, isLink |-> e.link]))

\* (t *repoTree) fillFromSlothFS(dir) in workspace w: [err, t].  tree is the
\* map of the tree.json files of w that can be read and parsed, by directory.
\* The result of the recursive calls on the children is dropped by the code.
RECURSIVE fillFromSlothFS(_, _, _)
fillFromSlothFS(t, w, dir) ==
    IF dir \notin DOMAIN w.tree THEN [err |-> TRUE, t |-> t]
    ELSE LET f == FillEntries(w.tree[dir], t.entries)
         IN  IF f.err THEN [err |-> TRUE, t |-> [t EXCEPT !.entries = f.entries]]
             ELSE [err |-> FALSE,
                   t |-> [children |-> [k \in DOMAIN t.children |->
                                fillFromSlothFS(t.children[k], w, Join(dir, k)).t],
                          entries |-> f.entries]]

\* repoTreeFromSlothFS(dir) for the workspace w at dir: the results [err, t]
repoTreeFromSlothFS(w) ==
    {LET f == fillFromSlothFS(root, w, <<>>)
     IN  IF f.err THEN [err |-> TRUE, t |-> Nil] ELSE [err |-> FALSE, t |-> f.t] :
        root \in repoTreeFromManifest(w)}

\* (t *repoTree) allChildren
RECURSIVE allChildren(_)
allChildren(t) ==
    LET sub == [nm \in DOMAIN t.children |-> allChildren(t.children[nm])]
        keys == {<<>>} \cup UNION {{Join(nm, s) : s \in DOMAIN sub[nm]} : nm \in DOMAIN t.children}
    IN  [p \in keys |->
            IF p = <<>> THEN t
            ELSE LET nm == CHOOSE nm \in DOMAIN t.children :
                                IsPrefix(nm, p) /\ Tail2(p, Len(nm)) \in DOMAIN sub[nm]
                 IN  sub[nm][Tail2(p, Len(nm))]]

\* (t *repoTree) allFiles
RECURSIVE allFiles(_)
allFiles(t) ==
    LET sub == [nm \in DOMAIN t.children |-> allFiles(t.children[nm])]
        below == UNION {{Join(nm, s) : s \in DOMAIN sub[nm]} : nm \in DOMAIN t.children}
    IN  [p \in DOMAIN t.entries \cup below |->
            IF p \in below
            THEN LET nm == CHOOSE nm \in DOMAIN t.children :
                                IsPrefix(nm, p) /\ Tail2(p, Len(nm)) \in DOMAIN sub[nm]
                 IN  sub[nm][Tail2(p, Len(nm))]
            ELSE t.entries[p]]

----------------------------------------------------------------------------
(* The file systems *)

\* filepath.Dir(ro): the mount directory /mnt
MountPath == <<"mnt">>

\* the ro argument of Checkout for workspace name w: /mnt/w
RoRoot(w) == <<"mnt", w>>

Workspaces == {"w1", "w2"}

\* A node of rw: readable is FALSE for a directory whose names cannot be
\* listed (mode 0300); its content can still be reached by name.
DirNode == [kind |-> "dir", target |-> <<>>, readable |-> TRUE]
LockedDirNode == [kind |-> "dir", target |-> <<>>, readable |-> FALSE]
FileNode == [kind |-> "file", target |-> <<>>, readable |-> TRUE]
LinkNode(t) == [kind |-> "link", target |-> t, readable |-> TRUE]

\* What os.Stat finds at the absolute path q outside rw: "dir", "file" or
\* "none".  Inside a workspace of the mount the directories are the project
\* roots, their ancestors and the directories of the tree.json entries; the
\* files are the entries.  Outside the mount only the regular files that the
\* user's symlinks of the universe point at exist.
StatAbs(q) ==
    IF Len(q) >= 2 /\ q[1] = "mnt" /\ q[2] \in Workspaces
    THEN LET w == mnt[q[2]]
             p == Tail2(q, 2)
             files == UNION {{Join(d, w.tree[d][i].name) : i \in 1..Len(w.tree[d])} :
                                d \in DOMAIN w.tree}
         IN  IF (\E i \in 1..Len(w.project) : IsPrefix(p, w.project[i]))
                \/ p = <<>> \/ (\E f \in files : IsProperPrefix(p, f))
             THEN "dir"
             ELSE IF p \in files \/ p \in w.dest THEN "file" ELSE "none"
    ELSE IF q = <<"mnt">> THEN "dir"
    ELSE IF q \in {<<"other", "t">>, <<"mnt2", "t">>} THEN "file"
    ELSE "none"

\* the first prefix of p (by length) that is not a real directory of fs;
\* Len(p) + 1 when p itself is a real directory
FirstNonDir(fs, p) ==
    LET bad == {i \in 0..Len(p) :
                    SubSeq(p, 1, i) \notin DOMAIN fs \/ fs[SubSeq(p, 1, i)].kind # "dir"}
    IN  IF bad = {} THEN Len(p) + 1 ELSE CHOOSE i \in bad : \A j \in bad : i <= j

\* p and all its ancestors are real directories of rw (no symlink on the way)
RealDir(fs, p) == FirstNonDir(fs, p) = Len(p) + 1

\* os.Stat(rw/p), which follows symlinks: "dir", "file" or "none" (an error)
Stat(fs, p) ==
    LET i == FirstNonDir(fs, p)
        pre == SubSeq(p, 1, i)
    IN  IF i = Len(p) + 1 THEN "dir"
        ELSE IF pre \notin DOMAIN fs THEN "none"
        ELSE IF fs[pre].kind = "file" THEN (IF i = Len(p) THEN "file" ELSE "none")
        ELSE StatAbs(Join(fs[pre].target, Tail2(p, i)))

\* os.Mkdir(rw/p): [err, fs].  The mount is read-only, so a Mkdir behind a
\* link fails.
Mkdir(fs, p) ==
    IF RealDir(fs, Dir(p)) /\ p \notin DOMAIN fs
    THEN [err |-> FALSE, fs |-> Put(fs, p, DirNode)]
    ELSE [err |-> TRUE, fs |-> fs]

\* os.MkdirAll(rw/p, 0755): [err, fs, tried]; tried are the paths
\* given to os.Mkdir
RECURSIVE MkdirAll(_, _)
MkdirAll(fs, p) ==
    LET st == Stat(fs, p)
    IN  IF st = "dir" THEN [err |-> FALSE, fs |-> fs, tried |-> {}]
        ELSE IF st = "file" \/ p = <<>> THEN [err |-> TRUE, fs |-> fs, tried |-> {}]
        ELSE LET r == MkdirAll(fs, Dir(p))
             IN  IF r.err THEN r
                 ELSE LET m == Mkdir(r.fs, p)
                      IN  [err |-> m.err, fs |-> m.fs, tried |-> r.tried \cup {p}]

\* a Symlink that replaces what it finds at dest
SymlinkReplace(fs, target, dest) ==
    IF RealDir(fs, Dir(dest))
    THEN [err |-> FALSE, fs |-> Put(fs, dest, LinkNode(target))]
    ELSE [err |-> TRUE, fs |-> fs]

\* os.Symlink(target, rw/dest): [err, fs].  It fails when dest exists, when
\* the parent is no directory, and when the parent lies in the read-only mount.
Symlink(fs, target, dest) ==
    IF RealDir(fs, Dir(dest)) /\ dest \notin DOMAIN fs
    THEN [err |-> FALSE, fs |-> Put(fs, dest, LinkNode(target))]
    ELSE [err |-> TRUE, fs |-> fs]

\* os.Remove of a file or symlink, or of an empty directory
Remove(fs, p) ==
    IF p \in DOMAIN fs /\ ~ \E q \in DOMAIN fs : IsProperPrefix(p, q)
    THEN [q \in DOMAIN fs \ {p} |-> fs[q]]
    ELSE fs

----------------------------------------------------------------------------
(* The link cleaner *)

\* the test that target is mount or lies below it
TargetUnderMount(target, mount) == IsPrefix(mount, target)

\* strings.HasPrefix(target, mount) on the path strings
TargetHasPrefix(target, mount) ==
    /\ Len(target) >= Len(mount)
    /\ SubSeq(target, 1, Len(mount) - 1) = SubSeq(mount, 1, Len(mount) - 1)
    /\ SegHasPrefix(target[Len(mount)], mount[Len(mount)])

\* the callback of filepath.Walk applied along the walk order: [fs, prefix, dirs]
RECURSIVE WalkLinks(_, _, _)
WalkLinks(walk, mount, st) ==
    IF walk = <<>> THEN st
    ELSE LET n == Head(walk)
             fi == st.fs[n]
             hit == fi.kind = "link" /\ TargetHasPrefix(fi.target, mount)
         IN  WalkLinks(Tail(walk), mount,
                [fs |-> IF hit THEN Remove(st.fs, n) ELSE st.fs,
                 prefix |-> IF hit THEN fi.target ELSE st.prefix,
                 dirs |-> IF fi.kind = "dir" /\ n # <<>> THEN Append(st.dirs, n) ELSE st.dirs])

\* a cleaner that removes no directory
KeepDirs(fs, dirs) == fs

\* the loop that removes dirs[len(dirs)-1-i]; the error of os.Remove is ignored
RECURSIVE RemoveDirs(_, _)
RemoveDirs(fs, dirs) ==
    IF dirs = <<>> THEN fs
    ELSE RemoveDirs(Remove(fs, dirs[Len(dirs)]), SubSeq(dirs, 1, Len(dirs) - 1))

\* strings.TrimPrefix(prefix, mount+"/") followed by the cut at the first "/".
\* A target that does not start with mount+"/" is kept whole; it is "" or an
\* absolute path, whose first "/" is at index 0, so the result is "".
WorkspaceName(prefix, mount) ==
    IF IsProperPrefix(mount, prefix) THEN prefix[Len(mount) + 1] ELSE ""

\* the order in which filepath.Walk visits the paths S: a directory before its
\* content, the names of one directory in sort order
RECURSIVE WalkOrder(_)
WalkOrder(S) ==
    IF S = {} THEN <<>>
    ELSE LET m == CHOOSE x \in S : \A y \in S \ {x} : PathLess(x, y)
         IN  <<m>> \o WalkOrder(S \ {m})

\* The paths filepath.Walk gives to the callback: it does not descend into a
\* directory it cannot list.  The callback gets the error as its third
\* argument and does not look at it.
Visited(fs) ==
    {p \in DOMAIN fs : \A i \in 0..(Len(p) - 1) : fs[SubSeq(p, 1, i)].readable}

\* dirs[len(dirs)-1-i] for i = 0, 1, ...
Reverse(s) == [i \in 1..Len(s) |-> s[Len(s) + 1 - i]]

\* clearLinks(mount, dir) on the writable directory fs: [fs, wsName, tried];
\* tried are the directories given to os.Remove, in order.
\* filepath.Walk visits the names of a directory in sort order and does not
\* follow symlinks.
clearLinks(mount, fs) ==
    LET walk == WalkOrder(Visited(fs))
        w == WalkLinks(walk, mount, [fs |-> fs, prefix |-> <<>>, dirs |-> <<>>])
    IN  [fs |-> RemoveDirs(w.fs, SortStrings(w.dirs)),
         wsName |-> WorkspaceName(w.prefix, mount),
         tried |-> Reverse(SortStrings(w.dirs))]

----------------------------------------------------------------------------
(* The builder of the writable tree *)

\* isRepoDir(rw/path)
isRepoDir(fs, path) ==
    \/ Stat(fs, Join(path, <<".git">>)) = "dir"
    \/ Stat(fs, Join(path, <<".slothfs">>)) = "dir"

MergeMaps(S) ==
    [k \in UNION {DOMAIN m : m \in S} |-> (CHOOSE m \in S : k \in DOMAIN m)[k]]

\* (parent *repoTree) fill(repoRoot, dir) once the call and all the
\* goroutines started below it have finished: what they have added to parent,
\* as [children, entries].  ioutil.ReadDir reports a symlink as a
\* non-directory; a call whose ReadDir fails adds nothing.
RECURSIVE fill(_, _, _)
fill(fs, repoRoot, dir) ==
    LET here == Join(repoRoot, dir)
        kids == {p \in DOMAIN fs : Len(p) = Len(here) + 1 /\ IsPrefix(here, p)
                                   /\ fs[here].readable}
        name(p) == p[Len(p)]
        skipped == {p \in kids : fs[p].kind = "dir" /\
                        (name(p) \in {".git", ".slothfs"} \/ (name(p) = "out" /\ dir = <<>>))}
        dirs == {p \in kids \ skipped : fs[p].kind = "dir"}
        repos == {p \in dirs : isRepoDir(fs, p)}
        subName(p) == Join(dir, <<name(p)>>)
        plain == {fill(fs, repoRoot, subName(p)) : p \in dirs \ repos}
    IN  [children |-> MergeMaps({[k \in {subName(p) : p \in repos} |->
                                    fill(fs, Join(repoRoot, k), <<>>)]}
                                \cup {c.children : c \in plain}),
         entries |-> MergeMaps({[k \in {subName(p) : p \in kids \ (skipped \cup dirs)} |->
                                    newFileInfo]}
                               \cup {c.entries : c \in plain})]

\* the tree of newRepoTree(rw) once every goroutine of fill has finished
newRepoTree(fs) == fill(fs, <<>>, <<>>)

\* ioutil.ReadDir(rw/here): [err, names], the names in sort order
ReadDir(fs, here) ==
    LET kids == {p \in DOMAIN fs : Len(p) = Len(here) + 1 /\ IsPrefix(here, p)}
        sorted == WalkOrder(kids)
    IN  IF here \notin DOMAIN fs \/ fs[here].kind # "dir" \/ ~fs[here].readable
        THEN [err |-> TRUE, names |-> <<>>]
        ELSE [err |-> FALSE, names |-> [i \in 1..Len(sorted) |-> sorted[i][Len(sorted[i])]]]

\* the repoTree that the node of repository root is the root of
RECURSIVE TreeOf(_, _)
TreeOf(nd, root) ==
    [children |-> [k \in nd[root].children |-> TreeOf(nd, Join(root, k))],
     entries |-> [e \in nd[root].entries |-> newFileInfo]]

\* a call of fill on the stack of a goroutine: its dir argument, the entries
\* of ReadDir its loop has not met yet, its todo map and the number of
\* results it has received from its errs channel
Frame(dir, names) == [dir |-> dir, rest |-> names, todo |-> {}, got |-> 0]

\* The goroutine of repository g runs the loop of the call of fill on top of
\* its stack (lines 320-341) until a call blocks at the receive of line 351
\* or the outermost call returns.  st is [stack, nodes, spawned, ret]: spawned
\* holds the goroutines started at line 345 as [root, out], ret is "run",
\* "wait", "nil" or "err".  The value a nested call returns at line 336 is
\* dropped.  (The state st0 is bound once, so that it is evaluated once.)
RECURSIVE RunFill(_, _, _)
RunFill(fs, g, st0) ==
    LET Body(st) ==
            LET n == Len(st.stack)
                top == st.stack[n]
                here == Join(g, top.dir)
            IN  IF top.rest # <<>>
                THEN LET e == Head(top.rest)
                         p == Join(here, <<e>>)
                         subName == Join(top.dir, <<e>>)
                         adv == [st.stack EXCEPT ![n].rest = Tail(@)]
                         isDir == fs[p].kind = "dir"
                     IN  IF isDir /\ (e \in {".git", ".slothfs"} \/ (e = "out" /\ top.dir = <<>>))
                         THEN RunFill(fs, g, [st EXCEPT !.stack = adv])
                         ELSE IF isDir /\ isRepoDir(fs, p)
                         THEN RunFill(fs, g,
                                [st EXCEPT !.stack = [adv EXCEPT ![n].todo = @ \cup {subName}],
                                           !.nodes = Put([@ EXCEPT ![g].children = @ \cup {subName}],
                                                         p, [children |-> {}, entries |-> {}])])
                         ELSE IF isDir
                         THEN LET rd == ReadDir(fs, p)
                              IN  IF rd.err THEN RunFill(fs, g, [st EXCEPT !.stack = adv])
                                  ELSE RunFill(fs, g,
                                        [st EXCEPT !.stack = Append(adv, Frame(subName, rd.names))])
                         ELSE RunFill(fs, g,
                                [st EXCEPT !.stack = adv,
                                           !.nodes[g].entries = @ \cup {subName}])
                ELSE IF top.todo # {}
                THEN [st EXCEPT !.spawned = @ \cup {[root |-> Join(g, k), out |-> here] : k \in top.todo},
                                !.ret = "wait"]
                ELSE IF n = 1 THEN [st EXCEPT !.stack = <<>>, !.ret = "nil"]
                ELSE RunFill(fs, g, [st EXCEPT !.stack = SubSeq(@, 1, n - 1)])
    IN  CHOOSE r \in {Body(st) : st \in {st0}} : TRUE

\* the goroutine of repository g starts: ReadDir of line 313, then the loop
FillFirst(fs, g, nd) ==
    LET rd == ReadDir(fs, g)
        st == [stack |-> <<>>, nodes |-> nd, spawned |-> {}, ret |-> "err"]
    IN  IF rd.err THEN st
        ELSE RunFill(fs, g, [st EXCEPT !.stack = <<Frame(<<>>, rd.names)>>, !.ret = "run"])

\* the call on top of the stack of g receives err from its channel (lines
\* 351-354): it returns err, goes on waiting, or returns nil after the last
\* result
FillReceived(fs, g, stack, nd, err) ==
    LET n == Len(stack)
        st == [stack |-> stack, nodes |-> nd, spawned |-> {}, ret |-> "run"]
        got == stack[n].got + 1
        done == err \/ got = Cardinality(stack[n].todo)
    IN  IF ~done THEN [st EXCEPT !.stack[n].got = got, !.ret = "wait"]
        ELSE IF n = 1 THEN [st EXCEPT !.stack = <<>>, !.ret = IF err THEN "err" ELSE "nil"]
        ELSE RunFill(fs, g, [st EXCEPT !.stack = SubSeq(@, 1, n - 1)])

----------------------------------------------------------------------------
(* The link planner.  Its state st is [fs, status, links, writes, descents,  *)
(* quota]: the writable directory, "ok" / "err" / "panic", the whole-tree   *)
(* links made by pass 1, the paths pass 2 gave to os.Symlink or os.Mkdir,   *)
(* the paths at which pass 1 called itself, and the calls of os.Symlink     *)
(* that the environment still lets succeed (NoFault: all of them).          *)

NoFault == -1

\* os.Symlink(target, rw/dest) called by the planner in state st: [err, fs]
SymlinkOrFault(st, fs, target, dest) ==
    IF st.quota = 0 THEN [err |-> TRUE, fs |-> fs] ELSE Symlink(fs, target, dest)

\* the quota after a call of os.Symlink that has succeeded
Spend(q) == IF q > 0 THEN q - 1 ELSE q

\* the inner loop of createTreeLinks over allRW in the order ks: which of
\* foundRecurse and foundCheckout it leaves set
RECURSIVE Classify(_, _)
Classify(nm, ks) ==
    IF ks = <<>> THEN "link"
    ELSE LET k == Head(ks)
         IN  IF k = <<>> THEN Classify(nm, Tail(ks))
             ELSE IF nm = k THEN "recurse"
             \* filepath.Rel(nm, k) starts with ".." unless k lies inside nm
             ELSE IF ~IsProperPrefix(nm, k) THEN Classify(nm, Tail(ks))
             ELSE "checkout"

\* LinkTree with roRoot as the target of the link
LinkTreeAtRoot(nm, roRoot, rwRoot, st) ==
    LET dest == Join(rwRoot, nm)
        d == MkdirAll(st.fs, Dir(dest))
        l == SymlinkOrFault(st, d.fs, roRoot, dest)
    IN  IF d.err \/ l.err THEN [st EXCEPT !.fs = d.fs, !.status = "err"]
        ELSE [st EXCEPT !.fs = l.fs, !.links = @ \cup {dest}, !.quota = Spend(@)]

\* the body of case !foundCheckout: MkdirAll and Symlink of rwRoot/nm
LinkTree(nm, roRoot, rwRoot, st) ==
    LET dest == Join(rwRoot, nm)
        d == MkdirAll(st.fs, Dir(dest))
        l == SymlinkOrFault(st, d.fs, Join(roRoot, nm), dest)
    IN  IF d.err THEN [st EXCEPT !.fs = d.fs, !.status = "err"]
        ELSE IF l.err THEN [st EXCEPT !.fs = d.fs, !.status = "err"]
        ELSE [st EXCEPT !.fs = l.fs, !.links = @ \cup {dest}, !.quota = Spend(@)]

\* createTreeLinks(ro, rw, roRoot, rwRoot): the states it can end in, over the
\* orders of its map ranges.  Nil is the nil *repoTree, on which
\* rw.allChildren() and ro.children panic.
RECURSIVE createTreeLinks(_, _, _, _, _)
createTreeLinks(roT, rwT, roRoot, rwRoot, st) ==
    IF rwT = Nil \/ roT = Nil THEN {[st EXCEPT !.status = "panic"]}
    ELSE
    LET allRW == DOMAIN allChildren(rwT)
        orders == Orders(allRW)
        Body(nm, s) ==
            UNION {LET c == Classify(nm, ks)
                   IN  IF c = "recurse"
                       THEN createTreeLinks(roT.children[nm],
                                IF nm \in DOMAIN rwT.children THEN rwT.children[nm] ELSE Nil,
                                Join(roRoot, nm), Join(rwRoot, nm),
                                [s EXCEPT !.descents = @ \cup {Join(rwRoot, nm)}])
                       ELSE IF c = "link" THEN {LinkTree(nm, roRoot, rwRoot, s)}
                       ELSE {s} :
                   ks \in orders}
        RECURSIVE Loop(_, _)
        Loop(todo, s) ==
            IF todo = {} THEN {s}
            ELSE UNION {UNION {IF s2.status = "ok" THEN Loop(todo \ {nm}, s2) ELSE {s2} :
                                s2 \in Body(nm, s)} :
                        nm \in todo}
    IN  Loop(DOMAIN roT.children, st)

\* the loop of symlinkRepo over child.entries
SymlinkEntries(name, child, roRoot, rwRoot, st) ==
    LET Body(e, s) ==
            LET dest == Join(Join(rwRoot, name), e)
                d == MkdirAll(s.fs, Dir(dest))
                l == SymlinkOrFault(s, d.fs, Join(Join(roRoot, name), e), dest)
            IN  IF d.err
                THEN [s EXCEPT !.fs = d.fs, !.status = "err", !.writes = @ \cup d.tried]
                ELSE [s EXCEPT !.fs = l.fs, !.status = IF l.err THEN "err" ELSE "ok",
                               !.writes = @ \cup d.tried \cup {dest},
                               !.quota = IF l.err THEN @ ELSE Spend(@)]
        RECURSIVE Loop(_, _)
        Loop(todo, s) ==
            IF todo = {} THEN {s}
            ELSE UNION {LET s2 == Body(e, s)
                        IN  IF s2.status = "ok" THEN Loop(todo \ {e}, s2) ELSE {s2} :
                        e \in todo}
    IN  Loop(DOMAIN child.entries, st)

\* symlinkRepo without the os.Stat test of rwRoot/name
symlinkRepoNoStat(name, child, roRoot, rwRoot, st) ==
    SymlinkEntries(name, child, roRoot, rwRoot, st)

\* symlinkRepo(name, child, roRoot, rwRoot)
symlinkRepo(name, child, roRoot, rwRoot, st) ==
    IF Stat(st.fs, Join(rwRoot, name)) = "dir" THEN {st}
    ELSE SymlinkEntries(name, child, roRoot, rwRoot, st)

\* createLinks(ro, rw, roRoot, rwRoot) on the writable directory fs, with
\* quota calls of os.Symlink allowed to succeed
createLinks(roT, rwT, roRoot, rwRoot, fs, quota) ==
    LET rwc == DOMAIN allChildren(rwT)
        roc == allChildren(roT)
        RECURSIVE Loop(_, _)
        Loop(todo, s) ==
            IF todo = {} THEN {s}
            ELSE UNION {UNION {IF s2.status = "ok" THEN Loop(todo \ {nm}, s2) ELSE {s2} :
                                s2 \in IF nm \in rwc THEN {s}
                                       ELSE symlinkRepo(nm, roc[nm], roRoot, rwRoot, s)} :
                        nm \in todo}
    IN  UNION {IF s1.status = "ok" THEN Loop(DOMAIN roc, s1) ELSE {s1} :
                s1 \in createTreeLinks(roT, rwT, roRoot, rwRoot,
                        [fs |-> fs, status |-> "ok", links |-> {}, writes |-> {},
                         descents |-> {}, quota |-> quota])}

----------------------------------------------------------------------------
(* The diff engine *)

\* IsChanged without the test for a nil sha1: two absent fingerprints compare equal
IsChangedNoNil(old, new, path) ==
    IF path \notin DOMAIN old THEN TRUE
    ELSE IF new[path].isLink THEN FALSE
    ELSE old[path].sha1 # new[path].sha1

\* the tests of changedFiles on one path of newInfos
IsChanged(old, new, path) ==
    IF path \notin DOMAIN old THEN TRUE
    ELSE IF new[path].isLink THEN FALSE
    ELSE IF old[path].sha1 = NoSha1 \/ new[path].sha1 = NoSha1 THEN TRUE
    ELSE old[path].sha1 # new[path].sha1

\* the range of changedFiles over newInfos, running in order
RECURSIVE ChangedLoop(_, _, _)
ChangedLoop(old, new, order) ==
    IF order = <<>> THEN <<>>
    ELSE IF IsChanged(old, new, Head(order))
         THEN <<Head(order)>> \o ChangedLoop(old, new, Tail(order))
         ELSE ChangedLoop(old, new, Tail(order))

\* changedFiles without its sort.Strings
changedFilesUnsorted(old, new, order) == ChangedLoop(old, new, order)

\* changedFiles(oldInfos, newInfos)
changedFiles(old, new, order) == SortStrings(ChangedLoop(old, new, order))

\* the loop of Checkout that joins ro with every changed path
JoinAll(root, chg) == [i \in 1..Len(chg) |-> Join(root, chg[i])]

----------------------------------------------------------------------------
(* The mounts and the writable directories a behaviour can start from *)

Entry(n, i, l) == [name |-> n, id |-> i, link |-> l]

\* The tree.json files of a workspace with the given projects.  Project a
\* holds f1 and f2, every other project f1; f2 is the entry (or <<>>) that
\* the workspaces of one mount differ in.  The root tree.json has no entry.
TreeFiles(project, f2) ==
    [d \in {<<>>} \cup {project[i] : i \in 1..Len(project)} |->
        IF d = <<>> THEN <<>>
        ELSE IF d = <<"a">> THEN <<Entry(<<"f1">>, 1, FALSE)>> \o f2
        ELSE <<Entry(<<"f1">>, 1, FALSE)>>]

\* the manifests: spec scenario S1, a project nested in another (listed
\* before its parent), and a manifest with a copyfile destination
Manifests ==
    {[project |-> <<<<"a">>, <<"b", "c">>>>, dest |-> {}],
     [project |-> <<<<"a", "sub">>, <<"a">>>>, dest |-> {}],
     [project |-> <<<<"a">>>>, dest |-> {<<"cf">>}]}

\* entry a/f2 in w1 and in w2: unchanged, new content id, a symlink with a
\* new id, a symlink that only w2 has
Variants ==
    {<<<<Entry(<<"f2">>, 1, FALSE)>>, <<Entry(<<"f2">>, 1, FALSE)>>>>,
     <<<<Entry(<<"f2">>, 1, FALSE)>>, <<Entry(<<"f2">>, 2, FALSE)>>>>,
     <<<<Entry(<<"f2">>, 1, TRUE)>>, <<Entry(<<"f2">>, 2, TRUE)>>>>,
     <<<<>>, <<Entry(<<"f2">>, 1, TRUE)>>>>}

\* the mounts whose metadata is whole
SoundMounts ==
    {[w \in Workspaces |->
        [project |-> m.project, dest |-> m.dest,
         tree |-> TreeFiles(m.project, IF w = "w1" THEN v[1] ELSE v[2])]] :
     m \in Manifests, v \in Variants}

\* Mounts with broken metadata in w2: the tree.json of the workspace root is
\* missing, the tree.json of project a is missing, the tree.json of project
\* b/c has an entry with a malformed hex id.
DamagedMounts ==
    LET m == [project |-> <<<<"a">>, <<"b", "c">>>>, dest |-> {}]
        t == TreeFiles(m.project, <<Entry(<<"f2">>, 1, FALSE)>>)
        Without(d) == [x \in DOMAIN t \ {d} |-> t[x]]
    IN  {[w \in Workspaces |->
            [project |-> m.project, dest |-> m.dest,
             tree |-> IF w = "w1" THEN t ELSE t2]] :
         t2 \in {Without(<<>>), Without(<<"a">>),
                 [t EXCEPT ![<<"b", "c">>] = <<Entry(<<"f1">>, BadHex, FALSE)>>]}}

Mounts == SoundMounts \cup DamagedMounts

\* a user's repository at p: the directories down to p and a non-empty p/.git
RepoAt(p) ==
    [q \in {SubSeq(p, 1, i) : i \in 1..Len(p)}
           \cup {Join(p, <<".git">>), Join(p, <<".git", "HEAD">>)} |->
        IF q = Join(p, <<".git", "HEAD">>) THEN FileNode ELSE DirNode]

\* a repository at p whose root directory cannot be listed
LockedRepoAt(p) == [RepoAt(p) EXCEPT ![p] = LockedDirNode]

\* a directory out in directory p, with a file in it
OutIn(p) ==
    [q \in {SubSeq(p, 1, i) : i \in 1..Len(p)}
           \cup {Join(p, <<"out">>), Join(p, <<"out", "u">>)} |->
        IF q = Join(p, <<"out", "u">>) THEN FileNode ELSE DirNode]

\* What rw can hold before the first Checkout: repositories at, inside and
\* above project paths, a file, an empty directory, a symlink to a file
\* outside the mount, a symlink into the sibling directory /mnt2 of the mount,
\* a file where a project is to be linked, a link that an earlier checkout of
\* w2 has left, a directory that cannot be listed and holds a file and a link
\* that an earlier checkout of w2 has left, repositories whose root cannot be
\* listed, a directory out with a file at the top of rw and in directory a,
\* and a file at a/sub.
UserItems ==
    {RepoAt(<<"a">>), RepoAt(<<"a", "x">>), RepoAt(<<"b">>), RepoAt(<<"b", "c">>),
     [q \in {<<"u">>} |-> FileNode],
     [q \in {<<"e">>} |-> DirNode],
     [q \in {<<"l">>} |-> LinkNode(<<"other", "t">>)],
     [q \in {<<"m">>} |-> LinkNode(<<"mnt2", "t">>)],
     [q \in {<<"a">>} |-> FileNode],
     [q \in {<<"a">>} |-> LinkNode(<<"mnt", "w2", "a">>)],
     [q \in {<<"d">>, <<"d", "u">>, <<"d", "k">>} |->
        IF q = <<"d">> THEN LockedDirNode
        ELSE IF q = <<"d", "u">> THEN FileNode ELSE LinkNode(<<"mnt", "w2", "a">>)],
     LockedRepoAt(<<"b">>), LockedRepoAt(<<"a", "y">>),
     OutIn(<<>>), OutIn(<<"a">>),
     [q \in {<<"a">>, <<"a", "sub">>} |-> IF q = <<"a">> THEN DirNode ELSE FileNode]}

Compatible(S) ==
    \A x \in S, y \in S : \A q \in DOMAIN x \cap DOMAIN y : x[q] = y[q]

InitialDirs ==
    {MergeMaps(S \cup {[q \in {<<>>} |-> DirNode]}) :
        S \in {T \in SUBSET UserItems : Cardinality(T) <= MaxUserItems /\ Compatible(T)}}

----------------------------------------------------------------------------
(* Checkout *)

Tasks == {"old", "rw", "ro"}

NoCall == [status |-> "idle", ro |-> "", fs |-> EmptyMap, changed |-> <<>>, before |-> EmptyMap]

Init ==
    /\ mnt \in Mounts
    /\ rwfs \in InitialDirs
    /\ pc = "idle"
    /\ ro = ""
    /\ wsName = ""
    /\ errs = <<>>
    /\ task = [t \in Tasks |-> "none"]
    /\ recvd = 0
    /\ oldInfos = NilInfos
    /\ rwTree = Nil
    /\ roTree = Nil
    /\ newInfos = NilInfos
    /\ changed = <<>>
    /\ calls = 0
    /\ prev = NoCall
    /\ rwBefore = EmptyMap
    /\ treeLinks = {}
    /\ repoWrites = {}
    /\ descents = {}
    /\ rmDirs = <<>>
    /\ routines = EmptyMap
    /\ chans = EmptyMap
    /\ nodes = EmptyMap

\* Checkout(/mnt/w, rw) is called and runs clearLinks (lines 523-528).  The
\* call before it, if any, has returned.
CallCheckout(w) ==
    /\ pc \in {"idle", "done", "failed", "panic"}
    /\ calls < MaxCheckouts
    /\ LET c == clearLinks(Dir(RoRoot(w)), rwfs)
       IN  /\ rwfs' = c.fs
           /\ wsName' = c.wsName
           /\ rmDirs' = c.tried
    /\ ro' = w
    /\ pc' = "spawn"
    /\ calls' = calls + 1
    /\ prev' = [status |-> pc, ro |-> ro, fs |-> rwfs, changed |-> changed, before |-> rwBefore]
    /\ rwBefore' = rwfs
    /\ errs' = <<>>
    /\ task' = [t \in Tasks |-> "none"]
    /\ recvd' = 0
    /\ oldInfos' = NilInfos
    /\ rwTree' = Nil
    /\ roTree' = Nil
    /\ newInfos' = NilInfos
    /\ changed' = <<>>
    /\ treeLinks' = {}
    /\ repoWrites' = {}
    /\ descents' = {}
    /\ routines' = EmptyMap
    /\ chans' = EmptyMap
    /\ nodes' = EmptyMap
    /\ UNCHANGED mnt

\* Spawn without the send of line 545
SpawnNoSend ==
    /\ pc = "spawn"
    /\ pc' = "join"
    /\ IF wsName # ""
       THEN /\ task' = [t \in Tasks |-> "running"]
            /\ UNCHANGED <<oldInfos, errs>>
       ELSE /\ task' = [t \in Tasks |-> IF t = "old" THEN "none" ELSE "running"]
            /\ oldInfos' = EmptyMap
            /\ UNCHANGED errs
    /\ routines' = [g \in {<<>>} |-> [stack |-> <<>>, out |-> <<>>, state |-> "ready"]]
    /\ nodes' = [g \in {<<>>} |-> [children |-> {}, entries |-> {}]]
    /\ UNCHANGED <<mnt, rwfs, ro, wsName, recvd, rwTree, roTree, newInfos, changed,
                   calls, prev, rwBefore, treeLinks, repoWrites, descents, rmDirs, chans>>

\* lines 531-557: the channel is made and the builders are started; without a
\* prior workspace oldInfos is set and nil is sent at once
Spawn ==
    /\ pc = "spawn"
    /\ pc' = "join"
    /\ IF wsName # ""
       THEN /\ task' = [t \in Tasks |-> "running"]
            /\ UNCHANGED <<oldInfos, errs>>
       ELSE /\ task' = [t \in Tasks |-> IF t = "old" THEN "none" ELSE "running"]
            /\ oldInfos' = EmptyMap
            /\ errs' = Append(errs, FALSE)
    /\ routines' = [g \in {<<>>} |-> [stack |-> <<>>, out |-> <<>>, state |-> "ready"]]
    /\ nodes' = [g \in {<<>>} |-> [children |-> {}, entries |-> {}]]
    /\ UNCHANGED <<mnt, rwfs, ro, wsName, recvd, rwTree, roTree, newInfos, changed,
                   calls, prev, rwBefore, treeLinks, repoWrites, descents, rmDirs, chans>>

\* the goroutine of lines 536-542; oldRoot is /mnt/<wsName>
BuildOld ==
    /\ task["old"] = "running"
    /\ \E r \in IF wsName \in Workspaces THEN repoTreeFromSlothFS(mnt[wsName])
                ELSE {[err |-> TRUE, t |-> Nil]} :
        /\ oldInfos' = IF r.t # Nil THEN allFiles(r.t) ELSE oldInfos
        /\ errs' = Append(errs, r.err)
    /\ task' = [task EXCEPT !["old"] = "done"]
    /\ UNCHANGED <<mnt, rwfs, pc, ro, wsName, recvd, rwTree, roTree, newInfos, changed,
                   calls, prev, rwBefore, treeLinks, repoWrites, descents,
                   rmDirs, routines, chans, nodes>>

\* What a step of the goroutine of repository g with result r leaves: the
\* goroutines of line 345 are started with the channel of line 343, a
\* goroutine that ends sends its result (line 346); the goroutine of the
\* root is the one of lines 548-552, which sets rwTree and sends on errs.
\* rwTree points at the root node, so it shows what later steps add.
Proceed(g, r, ch) ==
    LET ended == r.ret \in {"nil", "err"}
        made == [x \in DOMAIN ch \cup {sp.out : sp \in r.spawned} |->
                    IF x \in DOMAIN ch THEN ch[x] ELSE <<>>]
    IN  /\ nodes' = r.nodes
        /\ routines' =
            [x \in DOMAIN routines \cup {sp.root : sp \in r.spawned} |->
                IF x = g
                THEN [stack |-> r.stack, out |-> routines[g].out,
                      state |-> IF ended THEN "done" ELSE "wait"]
                ELSE IF x \in DOMAIN routines THEN routines[x]
                ELSE [stack |-> <<>>, state |-> "ready",
                      out |-> (CHOOSE sp \in r.spawned : sp.root = x).out]]
        /\ chans' = IF ended /\ g # <<>>
                    THEN [made EXCEPT ![routines[g].out] = Append(@, r.ret = "err")]
                    ELSE made
        /\ IF ended /\ g = <<>>
           THEN /\ rwTree' = IF r.ret = "err" THEN Nil ELSE TreeOf(r.nodes, <<>>)
                /\ errs' = Append(errs, r.ret = "err")
                /\ task' = [task EXCEPT !["rw"] = "done"]
           ELSE /\ rwTree' = IF rwTree # Nil THEN TreeOf(r.nodes, <<>>) ELSE rwTree
                /\ UNCHANGED <<errs, task>>
        /\ UNCHANGED <<mnt, rwfs, pc, ro, wsName, recvd, oldInfos, roTree, newInfos, changed,
                       calls, prev, rwBefore, treeLinks, repoWrites, descents, rmDirs>>

\* the goroutine of repository g starts and runs to its first receive or to
\* its end; g = <<>> is the goroutine of lines 548-552 calling newRepoTree(rw)
StartFill(g) ==
    /\ routines[g].state = "ready"
    /\ \E r \in {FillFirst(rwfs, g, nodes)} : Proceed(g, r, chans)

\* a call of fill of the goroutine of repository g receives a result and the
\* goroutine runs to its next receive or to its end
RecvFill(g) ==
    /\ routines[g].state = "wait"
    /\ LET here == Join(g, routines[g].stack[Len(routines[g].stack)].dir)
       IN  /\ chans[here] # <<>>
           /\ \E r \in {FillReceived(rwfs, g, routines[g].stack, nodes, Head(chans[here]))} :
                Proceed(g, r, [chans EXCEPT ![here] = Tail(@)])

\* the goroutine of lines 553-557
BuildRo ==
    /\ task["ro"] = "running"
    /\ \E r \in repoTreeFromSlothFS(mnt[ro]) :
        /\ roTree' = r.t
        /\ errs' = Append(errs, r.err)
    /\ task' = [task EXCEPT !["ro"] = "done"]
    /\ UNCHANGED <<mnt, rwfs, pc, ro, wsName, recvd, oldInfos, rwTree, newInfos, changed,
                   calls, prev, rwBefore, treeLinks, repoWrites, descents,
                   rmDirs, routines, chans, nodes>>

\* Receive with the test of err left out: every result counts
ReceiveAny ==
    /\ pc = "join"
    /\ errs # <<>>
    /\ errs' = Tail(errs)
    /\ recvd' = recvd + 1
    /\ pc' = IF recvd + 1 = 3 THEN "plan" ELSE "join"
    /\ UNCHANGED <<mnt, rwfs, ro, wsName, task, oldInfos, rwTree, roTree, newInfos, changed,
                   calls, prev, rwBefore, treeLinks, repoWrites, descents,
                   rmDirs, routines, chans, nodes>>

\* one round of the loop of lines 559-564
Receive ==
    /\ pc = "join"
    /\ errs # <<>>
    /\ errs' = Tail(errs)
    /\ IF Head(errs)
       THEN pc' = "failed" /\ UNCHANGED recvd
       ELSE /\ recvd' = recvd + 1
            /\ pc' = IF recvd + 1 = 3 THEN "plan" ELSE "join"
    /\ UNCHANGED <<mnt, rwfs, ro, wsName, task, oldInfos, rwTree, roTree, newInfos, changed,
                   calls, prev, rwBefore, treeLinks, repoWrites, descents,
                   rmDirs, routines, chans, nodes>>

\* lines 566-570: createLinks, then newInfos := roTree.allFiles()
Plan ==
    /\ pc = "plan"
    /\ \E q \in {NoFault} \cup 0..MaxFaultAt :
       \E s \in createLinks(roTree, rwTree, RoRoot(ro), <<>>, rwfs, q) :
        /\ rwfs' = s.fs
        /\ treeLinks' = s.links
        /\ repoWrites' = s.writes
        /\ descents' = s.descents
        /\ pc' = IF s.status = "ok" THEN "diff" ELSE IF s.status = "err" THEN "failed" ELSE "panic"
        /\ newInfos' = IF s.status = "ok" THEN allFiles(roTree) ELSE newInfos
    /\ UNCHANGED <<mnt, ro, wsName, errs, task, recvd, oldInfos, rwTree, roTree, changed,
                   calls, prev, rwBefore, rmDirs, routines, chans, nodes>>

\* lines 571-580: changedFiles and the join with ro
Diff ==
    /\ pc = "diff"
    /\ \E order \in Orders(DOMAIN newInfos) :
        changed' = JoinAll(RoRoot(ro), changedFiles(oldInfos, newInfos, order))
    /\ pc' = "done"
    /\ UNCHANGED <<mnt, rwfs, ro, wsName, errs, task, recvd, oldInfos, rwTree, roTree,
                   newInfos, calls, prev, rwBefore, treeLinks, repoWrites, descents,
                   rmDirs, routines, chans, nodes>>

Next ==
    \/ \E w \in Workspaces : CallCheckout(w)
    \/ Spawn
    \/ BuildOld
    \/ \E g \in DOMAIN routines : StartFill(g)
    \/ \E g \in DOMAIN routines : RecvFill(g)
    \/ BuildRo
    \/ Receive
    \/ Plan
    \/ Diff

Spec == Init /\ [][Next]_vars

\* a step of the running Checkout or of a goroutine it has started
Progress ==
    \/ Spawn
    \/ BuildOld
    \/ \E g \in DOMAIN routines : StartFill(g)
    \/ \E g \in DOMAIN routines : RecvFill(g)
    \/ BuildRo
    \/ Receive
    \/ Plan
    \/ Diff

\* the variables of which every step of Progress changes at least one
control == <<pc, task, routines, errs>>

\* The Go scheduler runs every goroutine that can run, and every file-system
\* call returns: a step of Checkout or of one of its goroutines that stays
\* possible is taken.  Nothing obliges the caller to call Checkout again.
\* It is checked from these states of Init: a sound mount and the mount whose
\* w2 lacks the tree.json of its root; an empty rw, a rw with repository b and a link left by
\* a checkout of w2, and a rw with a plain directory a that holds the
\* repository a/x and the repository a/y whose root cannot be listed.
FairMounts ==
    {m \in SoundMounts : m["w1"].tree # m["w2"].tree /\ m["w1"].project = <<<<"a">>, <<"b", "c">>>>
                         /\ ~m["w2"].tree[<<"a">>][2].link}
        \cup {m \in DamagedMounts : <<>> \notin DOMAIN m["w2"].tree}

FairDirs ==
    {MergeMaps(S \cup {[q \in {<<>>} |-> DirNode]}) :
        S \in {{},
               {RepoAt(<<"b">>), [q \in {<<"a">>} |-> LinkNode(<<"mnt", "w2", "a">>)]},
               {RepoAt(<<"a", "x">>), LockedRepoAt(<<"a", "y">>)}}}

InitFair == Init /\ mnt \in FairMounts /\ rwfs \in FairDirs

SpecFair == InitFair /\ [][Next]_vars /\ WF_control(Progress)

----------------------------------------------------------------------------
(* The diff engine on its own: Checkout at line 571 with arbitrary file maps *)

DiffPathList == <<<<"b", "c", "f1">>, <<"a", "f2">>, <<"cf">>>>

DiffPaths == {DiffPathList[i] : i \in 1..MaxDiffPaths}

FileInfos == [sha1 : {NoSha1, 1, 2}, isLink : BOOLEAN]

InfoMaps == UNION {[D -> FileInfos] : D \in SUBSET DiffPaths}

InitDiff ==
    /\ mnt = CHOOSE m \in Mounts : TRUE
    /\ rwfs = [q \in {<<>>} |-> DirNode]
    /\ pc = "diff"
    /\ ro = "w1"
    /\ wsName = ""
    /\ errs = <<>>
    /\ task = [t \in Tasks |-> "done"]
    /\ recvd = 3
    /\ oldInfos \in InfoMaps
    /\ rwTree = Nil
    /\ roTree = Nil
    /\ newInfos \in InfoMaps
    /\ changed = <<>>
    /\ calls = 1
    /\ prev = NoCall
    /\ rwBefore = EmptyMap
    /\ treeLinks = {}
    /\ repoWrites = {}
    /\ descents = {}
    /\ rmDirs = <<>>
    /\ routines = EmptyMap
    /\ chans = EmptyMap
    /\ nodes = EmptyMap

SpecDiff == InitDiff /\ [][Diff]_vars

----------------------------------------------------------------------------
(* The builder of the new snapshot on its own: the goroutine of lines       *)
(* 553-557 with arbitrary manifests, in a Checkout of an empty rw           *)

ProjectPaths == {<<"a">>, <<"a", "b">>, <<"a", "b", "c">>, <<"b">>, <<"b", "c">>}

\* the project lists of the manifests: distinct paths in any order
ProjectLists ==
    {m \in UNION {[1..n -> ProjectPaths] : n \in 0..MaxProjects} :
        \A i \in 1..Len(m) : \A j \in 1..Len(m) : i # j => m[i] # m[j]}

InitManifest ==
    /\ \E m \in ProjectLists :
        mnt = [w \in Workspaces |->
                [project |-> m, dest |-> {}, tree |-> TreeFiles(m, <<>>)]]
    /\ rwfs = [q \in {<<>>} |-> DirNode]
    /\ pc = "join"
    /\ ro = "w1"
    /\ wsName = ""
    /\ errs = <<FALSE, FALSE>>
    /\ task = [t \in Tasks |-> IF t = "old" THEN "none" ELSE IF t = "rw" THEN "done" ELSE "running"]
    /\ recvd = 0
    /\ oldInfos = EmptyMap
    /\ rwTree = makeRepoTree
    /\ roTree = Nil
    /\ newInfos = NilInfos
    /\ changed = <<>>
    /\ calls = 1
    /\ prev = NoCall
    /\ rwBefore = [q \in {<<>>} |-> DirNode]
    /\ treeLinks = {}
    /\ repoWrites = {}
    /\ descents = {}
    /\ rmDirs = <<>>
    /\ routines = [g \in {<<>>} |-> [stack |-> <<>>, out |-> <<>>, state |-> "done"]]
    /\ chans = EmptyMap
    /\ nodes = [g \in {<<>>} |-> [children |-> {}, entries |-> {}]]

SpecManifest == InitManifest /\ [][BuildRo]_vars

----------------------------------------------------------------------------
(* Properties *)

Range(q) == {q[i] : i \in 1..Len(q)}

\* the absolute path that rw/p resolves to through the first symlink on the
\* way, <<>> when there is none or its target does not exist
Resolve(fs, p) ==
    LET i == FirstNonDir(fs, p)
        pre == SubSeq(p, 1, i)
        q == Join(fs[pre].target, Tail2(p, i))
    IN  IF i <= Len(p) /\ pre \in DOMAIN fs /\ fs[pre].kind = "link" /\ StatAbs(q) # "none"
        THEN q ELSE <<>>

\* the last two calls of Checkout both returned a change-list
TwoCallsDone == pc = "done" /\ prev.status = "done"

\* the repositories of the writable directory, as the builder finds them
RwRepos == DOMAIN allChildren(rwTree) \ {<<>>}

\* C1.  After a successful Checkout every path of the flattened file map of
\* the new read-only tree resolves under rw to the same path under ro.
Coverage ==
    pc = "done" =>
        \A F \in DOMAIN newInfos : Resolve(rwfs, F) = Join(RoRoot(ro), F)

\* C2.  Two back-to-back successful Checkout calls with the same ro leave rw
\* in the same state.
IdempotentState ==
    (TwoCallsDone /\ prev.ro = ro) => rwfs = prev.fs

\* C3.  The second of two back-to-back successful Checkout calls with the
\* same ro returns an empty change-list.
EmptyChangeListOnRecheckout ==
    (TwoCallsDone /\ prev.ro = ro) => changed = <<>>

\* a symlink that points into the mount directory
IntoMount(node) == node.kind = "link" /\ IsPrefix(MountPath, node.target)

\* a directory that held links into the mount and nothing but such links and
\* directories
EmptiedByCleaner(fs, p) ==
    /\ fs[p].kind = "dir"
    /\ \E q \in DOMAIN fs : IsProperPrefix(p, q) /\ IntoMount(fs[q])
    /\ \A q \in DOMAIN fs : IsProperPrefix(p, q) => (fs[q].kind = "dir" \/ IntoMount(fs[q]))

\* C4.  Across a Checkout everything under rw is unchanged, but for the
\* symlinks into the mount and the directories emptied by their removal.
UserContentPreserved ==
    pc = "done" =>
        \A p \in DOMAIN rwBefore :
            \/ p \in DOMAIN rwfs /\ rwfs[p] = rwBefore[p]
            \/ IntoMount(rwBefore[p])
            \/ EmptiedByCleaner(rwBefore, p)

NoSymlinkReported ==
    pc = "done" =>
        \A P \in DOMAIN newInfos :
            newInfos[P].isLink => Join(RoRoot(ro), P) \notin Range(changed)

\* C7.  The change-list is sorted and has no duplicates.
ChangeListSorted ==
    pc = "done" =>
        \A i \in 1..Len(changed), j \in 1..Len(changed) :
            i < j => PathLess(changed[i], changed[j])

\* the diff has returned two paths or more
ChangeListSortedWitness == pc = "done" /\ Len(changed) >= 2

\* the content ids of the files of workspace w, from its tree.json files;
\* symlink entries are left out
ContentIds(w) ==
    LET at == {<<d, i>> \in UNION {{<<d, i>> : i \in 1..Len(mnt[w].tree[d])} :
                                     d \in DOMAIN mnt[w].tree} :
                    ~mnt[w].tree[d][i].link}
    IN  [P \in {Join(x[1], mnt[w].tree[x[1]][x[2]].name) : x \in at} |->
            LET x == CHOOSE x \in at : Join(x[1], mnt[w].tree[x[1]][x[2]].name) = P
            IN  mnt[w].tree[x[1]][x[2]].id]

\* C8.  A Checkout of W2 after a Checkout of W1 infers W1 and returns exactly
\* the paths of W2 whose content id differs from W1's or that W1 lacks.
SwitchReportsChanges ==
    (TwoCallsDone /\ prev.ro # ro) =>
        /\ wsName = prev.ro
        /\ Range(changed) =
            {Join(RoRoot(ro), P) : P \in
                {P \in DOMAIN ContentIds(ro) :
                    \/ P \notin DOMAIN ContentIds(prev.ro)
                    \/ ContentIds(prev.ro)[P] # ContentIds(ro)[P]}}

\* C9.  A project path K with a rw repository strictly inside it and none at
\* it ends as a real directory with one symlink per entry of K.
PartialCoverageLinksFiles ==
    pc = "done" =>
        \A K \in DOMAIN allChildren(roTree) \ {<<>>} :
            (K \notin RwRepos /\ \E r \in RwRepos : IsProperPrefix(K, r)) =>
                /\ K \in DOMAIN rwfs /\ rwfs[K].kind = "dir"
                /\ \A E \in DOMAIN allChildren(roTree)[K].entries :
                    /\ Join(K, E) \in DOMAIN rwfs
                    /\ rwfs[Join(K, E)] = LinkNode(Join(Join(RoRoot(ro), K), E))

\* C10.  Pass 2 gives no path beneath a whole-tree link of pass 1 to
\* os.Symlink or os.Mkdir.
NothingBeneathTreeLink ==
    \A k \in treeLinks, p \in repoWrites : ~IsPrefix(k, p)

\* pass 1 has linked project a as a whole and pass 2 has met a and the
\* project nested in it
NothingBeneathTreeLinkWitness ==
    /\ pc = "diff"
    /\ <<"a">> \in treeLinks
    /\ <<"a", "sub">> \in DOMAIN allChildren(roTree)
    /\ <<"a", "sub">> \notin DOMAIN allChildren(rwTree)

\* the symlinks of the writable directory
Links(fs) == {p \in DOMAIN fs : fs[p].kind = "link"}

\* C11.  After the planner has succeeded, every child key K of the read-only
\* root with no rw repository at or inside K is one symlink rw/K -> ro/K made
\* by pass 1 below real directories; a cold checkout into an empty rw leaves
\* exactly these symlinks.
WholeTreeLink ==
    pc \in {"diff", "done"} =>
        /\ \A K \in DOMAIN roTree.children :
            (~ \E r \in RwRepos : IsPrefix(K, r)) =>
                /\ K \in treeLinks
                /\ K \in DOMAIN rwfs
                /\ rwfs[K] = LinkNode(Join(RoRoot(ro), K))
                /\ RealDir(rwfs, Dir(K))
        /\ DOMAIN rwBefore = {<<>>} => Links(rwfs) = DOMAIN roTree.children

\* a cold checkout into an empty rw has linked b/c below the new directory b
WholeTreeLinkWitness ==
    /\ pc = "done"
    /\ DOMAIN rwBefore = {<<>>}
    /\ <<"b", "c">> \in treeLinks
    /\ rwfs[<<"b">>].kind = "dir"

\* C12.  Pass 1 descends into every child key K of the read-only root that
\* is the path of a rw repository, in every order of enumeration.
RecursePrecedence ==
    pc \in {"diff", "done"} =>
        \A K \in DOMAIN roTree.children : K \in RwRepos => K \in descents

\* the string of the absolute path t begins with the string of the mount path
BeginsWithMount(t) == t # <<>> /\ SegHasPrefix(t[1], MountPath[1])

\* the symlinks that the cleaner of the running Checkout has removed
RemovedLinks == {p \in DOMAIN rwBefore : rwBefore[p].kind = "link" /\ p \notin DOMAIN rwfs}

WorkspaceNameInferred ==
    pc = "spawn" =>
        /\ wsName = "" <=> RemovedLinks = {}
        /\ RemovedLinks # {} =>
            LET last == CHOOSE p \in RemovedLinks :
                            \A q \in RemovedLinks \ {p} : PathLess(q, p)
                t == rwBefore[last].target
            IN  IsProperPrefix(MountPath, t) => wsName = t[Len(MountPath) + 1]

\* the directories of rw before the running Checkout, rw itself left out
DirsBelow == {p \in DOMAIN rwBefore : rwBefore[p].kind = "dir" /\ p # <<>>}

\* C15.  The cleaner gives every directory below rw, and never rw, to
\* os.Remove, a directory after all its subdirectories; a directory is gone
\* iff nothing was left in it, and a directory that holds a regular file or a
\* symlink that does not point into the mount is in place.
DirCleanupOrder ==
    pc = "spawn" =>
        /\ Range(rmDirs) = DirsBelow
        /\ \A i \in 1..Len(rmDirs), j \in 1..Len(rmDirs) :
            IsProperPrefix(rmDirs[i], rmDirs[j]) => j < i
        /\ \A p \in Range(rmDirs) :
            p \in DOMAIN rwfs <=> \E q \in DOMAIN rwfs : IsProperPrefix(p, q)
        /\ \A p \in DirsBelow :
            (\E q \in DOMAIN rwBefore :
                /\ IsProperPrefix(p, q)
                /\ \/ rwBefore[q].kind = "file"
                   \/ rwBefore[q].kind = "link" /\ ~BeginsWithMount(rwBefore[q].target)) =>
                p \in DOMAIN rwfs

\* every goroutine of fill of the running Checkout has ended
FillQuiet == \A g \in DOMAIN routines : routines[g].state = "done"

\* C16.  No builder has started while the cleaner has not finished; when the
\* planner has created a link or has finished, all three results were
\* received and the trees are non-nil and complete (no goroutine of a builder
\* is still at work); a change-list is there only after the planner.
PhaseOrdering ==
    /\ pc \in {"idle", "spawn"} =>
        (\A t \in Tasks : task[t] = "none") /\ routines = EmptyMap
    /\ (pc \in {"diff", "done"} \/ treeLinks # {} \/ repoWrites # {}) =>
        /\ recvd = 3
        /\ \A t \in Tasks : task[t] # "running"
        /\ rwTree # Nil /\ roTree # Nil /\ oldInfos # NilInfos
        /\ FillQuiet
    /\ changed # <<>> => pc = "done"

\* a builder of the running Checkout has returned an error
BuilderFailed ==
    \/ task["old"] = "done" /\ oldInfos = NilInfos
    \/ task["rw"] = "done" /\ rwTree = Nil
    \/ task["ro"] = "done" /\ roTree = Nil

\* C17.  Once a builder has returned an error, Checkout is receiving or has
\* returned the error: the planner is not started, no change-list is made,
\* and rw stays as the cleaner left it.
BuilderErrorAborts ==
    BuilderFailed =>
        /\ pc \in {"join", "failed"}
        /\ changed = <<>>
        /\ treeLinks = {} /\ repoWrites = {} /\ descents = {}
        /\ rwfs = clearLinks(MountPath, rwBefore).fs

\* Checkout has returned the error of the builder of the writable tree while
\* the builder of the new snapshot has delivered a tree
BuilderErrorAbortsWitness ==
    /\ pc = "failed"
    /\ task["rw"] = "done" /\ rwTree = Nil
    /\ task["ro"] = "done" /\ roTree # Nil

\* C18.  When the builders of Checkout have succeeded, the tree.json of the
\* workspace root and of every project of the manifest is there and has no
\* entry with a malformed id.
MetadataErrorsFatal ==
    pc \in {"plan", "diff", "done"} =>
        \A d \in {<<>>} \cup Range(mnt[ro].project) :
            /\ d \in DOMAIN mnt[ro].tree
            /\ \A i \in 1..Len(mnt[ro].tree[d]) : mnt[ro].tree[d][i].id # BadHex

\* the directories that the builder of the writable tree reads (ReadDir)
BuilderDirs(fs) ==
    {p \in Visited(fs) : fs[p].kind = "dir" /\ ".git" \notin Range(p)}

\* C19.  When the builders of Checkout have succeeded, every directory the
\* builder of the writable tree has read could be listed.
ReadDirFailuresFatal ==
    pc \in {"plan", "diff", "done"} =>
        \A p \in BuilderDirs(clearLinks(MountPath, rwBefore).fs) : rwBefore[p].readable

\* the call of fill on directory here has not returned
FrameLive(here) ==
    \E g \in DOMAIN routines : \E i \in 1..Len(routines[g].stack) :
        Join(g, routines[g].stack[i].dir) = here

\* C20.  While a goroutine that a call of fill has started has not ended,
\* that call has not returned.
FanIn ==
    \A g \in DOMAIN routines \ {<<>>} :
        routines[g].state # "done" => FrameLive(routines[g].out)

\* C21.  A node of the writable tree is empty until the goroutine of its
\* repository runs (nobody else writes its maps); every goroutine of fill
\* has its node in the children of its parent's node; and when the planner,
\* which reads the whole writable tree, has made a link or has finished,
\* the goroutine of every node has sent its result.
TreeOwnership ==
    /\ \A n \in DOMAIN nodes :
        (n \notin DOMAIN routines \/ routines[n].state = "ready") =>
            nodes[n].children = {} /\ nodes[n].entries = {}
    /\ \A g \in DOMAIN routines :
        /\ g \in DOMAIN nodes
        /\ g # <<>> => \E p \in DOMAIN nodes : \E k \in nodes[p].children : Join(p, k) = g
    /\ (pc \in {"diff", "done"} \/ treeLinks # {} \/ repoWrites # {}) =>
        \A n \in DOMAIN nodes : n \in DOMAIN routines /\ routines[n].state = "done"

\* the files of rw that lie in a directory named out (not inside a .git)
FilesInOut ==
    {p \in Visited(rwfs) : /\ rwfs[p].kind = "file"
                           /\ "out" \in Range(Dir(p))
                           /\ ".git" \notin Range(p)}

\* C22.  When the builder of the writable tree has finished, a file in a
\* directory named out is an entry of the tree unless that directory is the
\* out at the top of rw.
OnlyTopLevelOutSkipped ==
    (pc \in {"join", "plan"} /\ task["rw"] = "done" /\ rwTree # Nil /\ FillQuiet) =>
        \A p \in FilesInOut : p \in DOMAIN allFiles(rwTree) <=> p[1] # "out"

\* the child links of the tree t, whose node lies at path at: [parent, key]
RECURSIVE Edges(_, _)
Edges(t, at) ==
    UNION {{[parent |-> at, key |-> k]} \cup Edges(t.children[k], Join(at, k)) :
            k \in DOMAIN t.children}

\* the longest proper prefix of p among the paths P and the root
DeepestAncestor(p, P) ==
    CHOOSE a \in P \cup {<<>>} :
        /\ IsProperPrefix(a, p)
        /\ \A b \in P : IsProperPrefix(b, p) => Len(b) <= Len(a)

\* C23.  The tree built from a manifest: (a) the full paths of its nodes are
\* the project paths and the root; (b) the node of each project is the
\* child of the node of its deepest ancestor project (or of the root), keyed
\* by the rest of its path; (c) no key of a node is a path-prefix of another
\* key of that node, so findParentRepo has one answer for every path.
ManifestTree ==
    roTree # Nil =>
        LET P == Range(mnt[ro].project)
            E == Edges(roTree, <<>>)
        IN  /\ DOMAIN allChildren(roTree) = P \cup {<<>>}
            /\ {Join(e.parent, e.key) : e \in E} = P
            /\ \A e \in E : e.parent = DeepestAncestor(Join(e.parent, e.key), P)
            /\ Cardinality(E) = Cardinality(P)
            /\ \A e \in E, f \in E :
                (e.parent = f.parent /\ e.key # f.key) => ~IsPrefix(e.key, f.key)
            /\ \A q \in ProjectPaths : Cardinality(findParentRepo(roTree, q)) = 1

\* a tree built from a manifest that lists a project before the project
\* that contains it, and two projects below one that is not listed
ManifestTreeWitness ==
    /\ roTree # Nil
    /\ \E i \in 1..Len(mnt[ro].project) : \E j \in 1..Len(mnt[ro].project) :
        i < j /\ IsProperPrefix(mnt[ro].project[j], mnt[ro].project[i])
    /\ \E e \in Edges(roTree, <<>>) : Len(e.key) > 1

\* rw as the cleaner of the running Checkout has left it
Cleaned == clearLinks(MountPath, rwBefore).fs

\* the repositories of the new read-only tree that pass 2 calls symlinkRepo on
Pass2Repos == DOMAIN allChildren(roTree) \ (RwRepos \cup {<<>>})

SuccessStates(fs, w) ==
    LET c == clearLinks(MountPath, fs).fs
    IN  UNION {{s.fs : s \in {x \in createLinks(r.t, newRepoTree(c), RoRoot(w), <<>>, c, NoFault) :
                                x.status = "ok"}} :
               r \in {x \in repoTreeFromSlothFS(mnt[w]) : ~x.err}}

\* C25.  When a Checkout has failed and the next Checkout of the same
\* workspace has succeeded, rw is in a state that a Checkout without failure
\* could have left from the state before the failed call.
RecoveryByReinvocation ==
    (pc = "done" /\ prev.status = "failed" /\ prev.ro = ro) =>
        rwfs \in SuccessStates(prev.before, ro)

\* the Checkout that failed has left a directory and a link into ro that were
\* not there before, the retry has succeeded
RecoveryByReinvocationWitness ==
    /\ pc = "done" /\ prev.status = "failed" /\ prev.ro = ro
    /\ \E p \in DOMAIN prev.fs \ DOMAIN prev.before :
        prev.fs[p].kind = "link" /\ IsPrefix(RoRoot(ro), prev.fs[p].target)
    /\ \E p \in DOMAIN prev.fs \ DOMAIN prev.before : prev.fs[p].kind = "dir"
    /\ \E K \in DOMAIN roTree.children : K \notin DOMAIN prev.fs /\ K \in DOMAIN rwfs

\* the workspace that rw was linked to before the call before the running one
LinkedBefore == clearLinks(MountPath, prev.before).wsName

\* C26.  rw was linked to workspace W1, a Checkout of another workspace W2
\* failed after it had made links into W2, and the retry has succeeded: the
\* change-list of the retry holds every path of W2 whose content id differs
\* from W1's or that W1 lacks.
ChangeListAfterFailedSwitch ==
    (/\ pc = "done" /\ prev.status = "failed" /\ prev.ro = ro
     /\ LinkedBefore \in Workspaces \ {ro}
     /\ \E p \in DOMAIN prev.fs \ DOMAIN prev.before :
            prev.fs[p].kind = "link" /\ IsPrefix(RoRoot(ro), prev.fs[p].target)) =>
        \A P \in DOMAIN ContentIds(ro) :
            (\/ P \notin DOMAIN ContentIds(LinkedBefore)
             \/ ContentIds(LinkedBefore)[P] # ContentIds(ro)[P]) =>
                Join(RoRoot(ro), P) \in Range(changed)

\* C27.  Pass 1 never calls itself with a nil writable node: the planner does
\* not end in the nil dereference of rw.allChildren().
RecursionHasWritableNode == pc # "panic"

\* C28.  After a successful Checkout(/mnt/W, rw) every symlink of rw whose
\* target begins with the mount path points into /mnt/W; and when the
\* cleaner of the next Checkout has removed a link, it has inferred W.
SingleWorkspace ==
    /\ pc = "done" =>
        \A p \in Links(rwfs) :
            BeginsWithMount(rwfs[p].target) => IsPrefix(RoRoot(ro), rwfs[p].target)
    /\ (pc = "spawn" /\ prev.status = "done" /\ RemovedLinks # {}) => wsName = prev.ro

\* the goroutines that send their result on the channel of the call of fill
\* on directory h
Senders(h) == {g \in DOMAIN routines \ {<<>>} : routines[g].out = h}

\* The results that lie in the channels.  errs of Checkout has capacity 3 and
\* holds one result of each builder that has ended (and the nil sent at
\* line 545 when there is no prior workspace) less those received; the
\* channel of a call of fill has one slot for each goroutine the call has
\* started and holds at most the results of those that have ended.
ChannelsHaveRoom ==
    /\ Len(errs) <= 3
    /\ recvd <= 3
    /\ pc \in {"plan", "diff", "done"} => recvd = 3
    /\ pc \in {"join", "plan", "diff", "done", "failed", "panic"} =>
        Len(errs) + recvd + (IF pc = "failed" /\ recvd < 3 THEN 1 ELSE 0) =
            Cardinality({t \in Tasks : task[t] = "done"}) + (IF wsName = "" THEN 1 ELSE 0)
    /\ \A h \in DOMAIN chans :
        Len(chans[h]) <= Cardinality({g \in Senders(h) : routines[g].state = "done"})
    /\ \A g \in DOMAIN routines : \A i \in 1..Len(routines[g].stack) :
        routines[g].stack[i].got <= Cardinality(routines[g].stack[i].todo)

\* Checkout has returned and every builder and every goroutine of fill it
\* has started has ended
AllEnded ==
    /\ pc \in {"done", "failed"}
    /\ \A t \in Tasks : task[t] # "running"
    /\ FillQuiet

\* C29.  No send finds its channel full, Checkout goes on to the planner
\* after exactly three results, and the last Checkout of a behaviour returns
\* and every task it has started ends.
NoStuckTask ==
    /\ []ChannelsHaveRoom
    /\ (calls = MaxCheckouts /\ pc = "spawn") ~> AllEnded

\* Checkout has returned at the first error it received while results of
\* other builders are in errs, and the goroutines of nested repositories
\* have ended all the same
NoStuckTaskWitness ==
    /\ calls = MaxCheckouts
    /\ pc = "failed" /\ recvd < 3 /\ errs # <<>>
    /\ AllEnded
    /\ \E g \in DOMAIN routines : g # <<>>

====
